---- MODULE Spec2Model ----
(***************************************************************************)
(* The credential cache decoder of credentials/ccache.go: ParseCCache and  *)
(* the readers it is built from, LoadCCache, and the queries GetEntries,   *)
(* GetEntry and Contains.                                                  *)
(*                                                                         *)
(* A Go byte slice is a window of len bytes on a backing array of cap      *)
(* bytes.  An index expression b[i] is checked against len, a slice        *)
(* expression b[lo:hi] against cap, and a failed check panics.  A buffer   *)
(* is therefore the record [arr, len]: arr is the backing array (Len(arr)  *)
(* is cap) and len the length of the slice.  Strings are byte sequences.   *)
(***************************************************************************)
EXTENDS Integers, Sequences, FiniteSets, TLC

----------------------------------------------------------------------------
(* Integer conversions *)

\* int8(x) of a byte
ToInt8(x) == IF x >= 128 THEN x - 256 ELSE x

\* the int16 that binary.Read decodes from two bytes
ToInt16(u) == IF u >= 32768 THEN u - 65536 ELSE u

\* uint16(i) of an int16
ToUint16(i) == (i + 65536) % 65536

\* binary.ByteOrder.Uint16: le is TRUE for binary.LittleEndian
Uint16(s, le) == IF le THEN s[1] + 256 * s[2] ELSE 256 * s[1] + s[2]

\* the int32 that binary.Read decodes from four bytes: the most significant
\* byte carries the sign
Int32(s, le) ==
    IF le THEN s[1] + 256 * s[2] + 65536 * s[3] + 16777216 * ToInt8(s[4])
          ELSE 16777216 * ToInt8(s[1]) + 65536 * s[2] + 256 * s[3] + s[4]

----------------------------------------------------------------------------
(* Slices of the buffer *)

Cap(buf) == Len(buf.arr)

\* the bounds check of the slice expression b[lo:hi]
SliceOK(buf, lo, hi) == 0 <= lo /\ lo <= hi /\ hi <= Cap(buf)

\* the bytes of b[lo:hi]
Slice(buf, lo, hi) == SubSeq(buf.arr, lo + 1, hi)

\* the bounds check of the index expression b[i]
IndexOK(buf, i) == 0 <= i /\ i < buf.len

\* what a reader leaves when a bounds check panics
Panicked(p) == [ok |-> FALSE, p |-> p, v |-> 0]

----------------------------------------------------------------------------
(* The readers: each returns [ok, p, v], the offset after the read and the *)
(* value read; ok is FALSE when the read panics.                           *)

read_int8(buf, p, le) ==
    IF ~SliceOK(buf, p, p + 1) THEN Panicked(p)
    ELSE [ok |-> TRUE, p |-> p + 1, v |-> ToInt8(buf.arr[p + 1])]

read_int16(buf, p, le) ==
    IF ~SliceOK(buf, p, p + 2) THEN Panicked(p)
    ELSE [ok |-> TRUE, p |-> p + 2, v |-> ToInt16(Uint16(Slice(buf, p, p + 2), le))]

read_int32(buf, p, le) ==
    IF ~SliceOK(buf, p, p + 4) THEN Panicked(p)
    ELSE [ok |-> TRUE, p |-> p + 4, v |-> Int32(Slice(buf, p, p + 4), le)]

\* b[p : p+s] is in bounds when p <= p+s <= cap, which is 0 <= s <= cap-p
read_Bytes(buf, p, s, le) ==
    IF ~(0 <= p /\ 0 <= s /\ s <= Cap(buf) - p) THEN Panicked(p)
    ELSE [ok |-> TRUE, p |-> p + s, v |-> Slice(buf, p, p + s)]

read_data(buf, p, le) ==
    LET l == read_int32(buf, p, le) IN
    IF ~l.ok THEN Panicked(p) ELSE read_Bytes(buf, l.p, l.v, le)

\* time.Unix(sec, 0) is kept as its seconds
read_timestamp(buf, p, le) == read_int32(buf, p, le)

read_address(buf, p, le) ==
    LET t == read_int16(buf, p, le) IN
    IF ~t.ok THEN Panicked(p)
    ELSE LET d == read_data(buf, t.p, le) IN
         IF ~d.ok THEN Panicked(p)
         ELSE [ok |-> TRUE, p |-> d.p, v |-> [AddrType |-> t.v, Address |-> d.v]]

read_authDataEntry(buf, p, le) ==
    LET t == read_int16(buf, p, le) IN
    IF ~t.ok THEN Panicked(p)
    ELSE LET d == read_data(buf, t.p, le) IN
         IF ~d.ok THEN Panicked(p)
         ELSE [ok |-> TRUE, p |-> d.p, v |-> [ADType |-> t.v, ADData |-> d.v]]

\* the first byte in memory of the int 0x012345678: 0x78 on a little-endian
\* host, 0x00 on a big-endian host with a 64-bit int
FirstByteOfProbe(little) == IF little THEN 120 ELSE 0

isNativeEndianLittle(little) ==
    LET bp0 == FirstByteOfProbe(little) IN
    IF bp0 = 1 THEN FALSE ELSE IF bp0 = 120 THEN TRUE ELSE FALSE

\* the byte order ParseCCache selects: TRUE for binary.LittleEndian
Endian(version, little) ==
    (version = 1 \/ version = 2) /\ isNativeEndianLittle(little)

----------------------------------------------------------------------------
(* Zero values of the Go types *)

EmptyHeader == [length |-> 0, fields |-> <<>>]

EmptyPrincipalName == [NameType |-> 0, NameString |-> <<>>]

EmptyPrincipal == [Realm |-> <<>>, PrincipalName |-> EmptyPrincipalName]

EmptyCredential ==
    [Client |-> EmptyPrincipal, Server |-> EmptyPrincipal,
     Key |-> [KeyType |-> 0, KeyValue |-> <<>>],
     AuthTime |-> 0, StartTime |-> 0, EndTime |-> 0, RenewTill |-> 0,
     IsSKey |-> FALSE, TicketFlags |-> <<>>, Addresses |-> <<>>,
     AuthData |-> <<>>, Ticket |-> <<>>, SecondTicket |-> <<>>]

EmptyCCache ==
    [Version |-> 0, Header |-> EmptyHeader, DefaultPrincipal |-> EmptyPrincipal,
     Credentials |-> <<>>, Path |-> ""]

----------------------------------------------------------------------------
(* parse_header *)

headerFieldTagKDCOffset == 1

\* valid with the length of the field left unchecked
valid_m(h) == h.tag = headerFieldTagKDCOffset

\* headerField.valid
valid(h) ==
    IF h.tag = headerFieldTagKDCOffset
    THEN IF h.length # 8 \/ Len(h.value) # 8 THEN FALSE ELSE TRUE
    ELSE FALSE

\* header_more counting the bytes consumed since the length field
header_more_m(p, length) == p - 4 <= length

\* the condition of parse_header's loop: the offset in the whole buffer is
\* compared with the length the header declares
header_more(p, length) == p <= length

\* parse_header's loop.  Returns [ok, err, p, fields, read]: fields are the
\* fields appended to h.fields, read every field whose tag, length and value
\* the loop took from the buffer, the last of them the invalid one when err
\* is set.
RECURSIVE header_loop(_, _, _, _, _, _)
header_loop(buf, p, le, length, fields, read) ==
    IF ~header_more(p, length)
    THEN [ok |-> TRUE, err |-> "nil", p |-> p, fields |-> fields, read |-> read]
    ELSE
      LET t == read_int16(buf, p, le) IN
      IF ~t.ok THEN [ok |-> FALSE, err |-> "nil", p |-> p, fields |-> fields, read |-> read]
      ELSE
      LET l == read_int16(buf, t.p, le) IN
      IF ~l.ok THEN [ok |-> FALSE, err |-> "nil", p |-> t.p, fields |-> fields, read |-> read]
      ELSE
      LET flen == ToUint16(l.v) IN
      IF ~SliceOK(buf, l.p, l.p + flen)
      THEN [ok |-> FALSE, err |-> "nil", p |-> l.p, fields |-> fields, read |-> read]
      ELSE
      LET f == [tag |-> ToUint16(t.v), length |-> flen,
                value |-> Slice(buf, l.p, l.p + flen)]
      IN
      IF ~valid(f)
      THEN [ok |-> TRUE, err |-> "InvalidHeaderField", p |-> l.p + flen,
            fields |-> fields, read |-> Append(read, f)]
      ELSE header_loop(buf, l.p + flen, le, length, Append(fields, f), Append(read, f))

\* Returns [ok, err, p, h, read]; h is what c.Header is set to, and is only
\* assigned when the loop ends without an error.
parse_header(buf, p, version, le) ==
    IF version # 4
    THEN [ok |-> TRUE, err |-> "NoHeader", p |-> p, h |-> EmptyHeader, read |-> <<>>]
    ELSE
      LET n == read_int16(buf, p, le) IN
      IF ~n.ok
      THEN [ok |-> FALSE, err |-> "nil", p |-> p, h |-> EmptyHeader, read |-> <<>>]
      ELSE
      LET length == ToUint16(n.v)
          r == header_loop(buf, n.p, le, length, <<>>, <<>>)
      IN [ok |-> r.ok, err |-> r.err, p |-> r.p,
          h |-> IF r.ok /\ r.err = "nil"
                THEN [length |-> length, fields |-> r.fields] ELSE EmptyHeader,
          read |-> r.read]

----------------------------------------------------------------------------
(* parse_principal *)

\* name_count without the adjustment for version 1
name_count_m(version, raw) == raw

\* the number of name components to read, from the count field of the file
name_count(version, raw) == IF version = 1 THEN raw - 1 ELSE raw

\* the loop  for i := 0; i < nc; i++  of parse_principal
RECURSIVE read_components(_, _, _, _, _, _)
read_components(buf, p, le, i, nc, names) ==
    IF ~(i < nc) THEN [ok |-> TRUE, p |-> p, v |-> names]
    ELSE LET d == read_data(buf, p, le) IN
         IF ~d.ok THEN Panicked(p)
         ELSE read_components(buf, d.p, le, i + 1, nc, Append(names, d.v))

parse_principal(buf, p, version, le) ==
    LET nt == IF version # 1 THEN read_int32(buf, p, le)
                             ELSE [ok |-> TRUE, p |-> p, v |-> 0]
    IN
    IF ~nt.ok THEN Panicked(p) ELSE
    LET raw == read_int32(buf, nt.p, le) IN
    IF ~raw.ok THEN Panicked(p) ELSE
    LET nc == name_count(version, raw.v)
        realm == read_data(buf, raw.p, le)
    IN
    IF ~realm.ok THEN Panicked(p) ELSE
    LET ns == read_components(buf, realm.p, le, 0, nc, <<>>) IN
    IF ~ns.ok THEN Panicked(p)
    ELSE [ok |-> TRUE, p |-> ns.p,
          v |-> [Realm |-> realm.v,
                 PrincipalName |-> [NameType |-> nt.v, NameString |-> ns.v]]]

----------------------------------------------------------------------------
(* parse_credential *)

\* make([]T, l, l) followed by  for i := range  reading one entry each:
\* make panics on a negative length.  kind is "addr" or "authdata".
RECURSIVE read_entries(_, _, _, _, _, _, _)
read_entries(buf, p, le, kind, i, l, acc) ==
    IF ~(i < l) THEN [ok |-> TRUE, p |-> p, v |-> acc]
    ELSE LET e == IF kind = "addr" THEN read_address(buf, p, le)
                                   ELSE read_authDataEntry(buf, p, le)
         IN IF ~e.ok THEN Panicked(p)
            ELSE read_entries(buf, e.p, le, kind, i + 1, l, Append(acc, e.v))

read_list(buf, p, le, kind) ==
    LET l == read_int32(buf, p, le) IN
    IF ~l.ok THEN Panicked(p)
    ELSE IF l.v < 0 THEN Panicked(l.p)
    ELSE read_entries(buf, l.p, le, kind, 0, l.v, <<>>)

\* the reads of parse_credential, in the order of its statements: the k-th
\* read at offset p
cred_read(buf, p, version, le, k) ==
    CASE k = 1 -> parse_principal(buf, p, version, le)
      [] k = 2 -> parse_principal(buf, p, version, le)
      [] k = 3 -> read_int16(buf, p, le)
      [] k = 4 -> read_int16(buf, p, le)
      [] k = 5 -> read_data(buf, p, le)
      [] k \in 6..9 -> read_timestamp(buf, p, le)
      [] k = 10 -> read_int8(buf, p, le)
      [] k = 11 -> read_Bytes(buf, p, 4, le)
      [] k = 12 -> read_list(buf, p, le, "addr")
      [] k = 13 -> read_list(buf, p, le, "authdata")
      [] k = 14 -> read_data(buf, p, le)
      [] k = 15 -> read_data(buf, p, le)

\* the assignment that takes the value of the k-th read
cred_assign(cred, k, v) ==
    CASE k = 1 -> [cred EXCEPT !.Client = v]
      [] k = 2 -> [cred EXCEPT !.Server = v]
      [] k = 3 -> [cred EXCEPT !.Key.KeyType = v]
      [] k = 4 -> [cred EXCEPT !.Key.KeyType = v]
      [] k = 5 -> [cred EXCEPT !.Key.KeyValue = v]
      [] k = 6 -> [cred EXCEPT !.AuthTime = v]
      [] k = 7 -> [cred EXCEPT !.StartTime = v]
      [] k = 8 -> [cred EXCEPT !.EndTime = v]
      [] k = 9 -> [cred EXCEPT !.RenewTill = v]
      [] k = 10 -> [cred EXCEPT !.IsSKey = (v # 0)]
      [] k = 11 -> [cred EXCEPT !.TicketFlags = v]
      [] k = 12 -> [cred EXCEPT !.Addresses = v]
      [] k = 13 -> [cred EXCEPT !.AuthData = v]
      [] k = 14 -> [cred EXCEPT !.Ticket = v]
      [] k = 15 -> [cred EXCEPT !.SecondTicket = v]

\* the statements of parse_credential from the k-th read on; the second
\* read of the key type is made in version 3 only
RECURSIVE cred_from(_, _, _, _, _, _)
cred_from(buf, p, version, le, k, cred) ==
    IF k > 15 THEN [ok |-> TRUE, p |-> p, v |-> cred]
    ELSE IF k = 4 /\ version # 3 THEN cred_from(buf, p, version, le, k + 1, cred)
    ELSE LET r == cred_read(buf, p, version, le, k) IN
         IF ~r.ok THEN Panicked(p)
         ELSE cred_from(buf, r.p, version, le, k + 1, cred_assign(cred, k, r.v))

\* Returns [ok, p, v]; the error parse_credential returns is always nil.
parse_credential(buf, p, version, le) ==
    cred_from(buf, p, version, le, 1, EmptyCredential)

----------------------------------------------------------------------------
(* ParseCCache, one step at a time.  A decoding state is the record        *)
(* [pc, p, c, err, iters, read]: pc the place in ParseCCache, p its cursor,*)
(* c and err its named results, iters the iterations of the credential     *)
(* loop completed, and read the header fields parse_header took from the   *)
(* buffer.  pc is "returned" once ParseCCache has returned and "panicked"  *)
(* once a bounds check has aborted it.  The errors are named after what    *)
(* they report: "MalformedMagic" is "First byte does not equal 5",         *)
(* "UnsupportedVersion" is "Keytab version is not within 1 to 4" and       *)
(* "InvalidHeaderField" is "Invalid credential cache header found".        *)

Entry == [pc |-> "magic", p |-> 0, c |-> EmptyCCache, err |-> "nil",
          iters |-> 0, read |-> <<>>]

Returned(st) == [st EXCEPT !.pc = "returned"]

Panic(st) == [st EXCEPT !.pc = "panicked"]

\* version_ok without the lower bound
version_ok_m(v) == ~(v > 4)

\* step_magic with the version byte indexed before the first byte is tested
step_magic_m(buf, st) ==
    IF ~IndexOK(buf, st.p) \/ ~IndexOK(buf, st.p + 1) THEN Panic(st)
    ELSE IF ToInt8(buf.arr[st.p + 1]) # 5
         THEN Returned([st EXCEPT !.err = "MalformedMagic"])
         ELSE [st EXCEPT !.p = st.p + 1, !.pc = "version"]

\* the version check of ParseCCache
version_ok(v) == ~(v < 1 \/ v > 4)

\* lines 83-89: the first byte of the file always has the value 5
step_magic(buf, st) ==
    IF ~IndexOK(buf, st.p) THEN Panic(st)
    ELSE IF ToInt8(buf.arr[st.p + 1]) # 5
         THEN Returned([st EXCEPT !.err = "MalformedMagic"])
         ELSE [st EXCEPT !.p = st.p + 1, !.pc = "version"]

\* lines 90-99: the second byte contains the version number (1 to 4)
step_version(buf, st) ==
    IF ~IndexOK(buf, st.p) THEN Panic(st)
    ELSE LET v == buf.arr[st.p + 1]
             s == [st EXCEPT !.c.Version = v]
         IN IF ~version_ok(v)
            THEN Returned([s EXCEPT !.err = "UnsupportedVersion"])
            ELSE [s EXCEPT !.p = st.p + 1,
                           !.pc = IF v = 4 THEN "header" ELSE "principal"]

\* lines 106-111
step_header(buf, st, little) ==
    LET v == st.c.Version
        r == parse_header(buf, st.p, v, Endian(v, little))
        s == [st EXCEPT !.p = r.p, !.read = r.read]
    IN IF ~r.ok THEN Panic(s)
       ELSE IF r.err # "nil" THEN Returned([s EXCEPT !.err = r.err])
       ELSE [s EXCEPT !.c.Header = r.h, !.pc = "principal"]

\* line 112
step_principal(buf, st, little) ==
    LET v == st.c.Version
        r == parse_principal(buf, st.p, v, Endian(v, little))
    IN IF ~r.ok THEN Panic(st)
       ELSE [st EXCEPT !.p = r.p, !.c.DefaultPrincipal = r.v, !.pc = "credentials"]

\* lines 113-121: one test of the loop condition and, when it holds, one
\* iteration
step_credentials(buf, st, little) ==
    IF ~(st.p < buf.len) THEN Returned(st)
    ELSE LET v == st.c.Version
             r == parse_credential(buf, st.p, v, Endian(v, little))
         IN IF ~r.ok THEN Panic(st)
            ELSE [st EXCEPT !.p = r.p,
                            !.c.Credentials = Append(st.c.Credentials, r.v),
                            !.iters = st.iters + 1]

Step(buf, st, little) ==
    CASE st.pc = "magic" -> step_magic(buf, st)
      [] st.pc = "version" -> step_version(buf, st)
      [] st.pc = "header" -> step_header(buf, st, little)
      [] st.pc = "principal" -> step_principal(buf, st, little)
      [] st.pc = "credentials" -> step_credentials(buf, st, little)
      [] OTHER -> st

RECURSIVE Run(_, _, _)
Run(buf, st, little) ==
    IF st.pc \in {"returned", "panicked"} THEN st
    ELSE Run(buf, Step(buf, st, little), little)

\* the whole call: the state ParseCCache ends in
ParseCCache(buf, little) == Run(buf, Entry, little)

----------------------------------------------------------------------------
(* The queries.  Each returns its results and, as recv, the Credentials of *)
(* the receiver after the call.                                            *)

\* types.PrincipalName.Equal: the name types agree and so do the components
Equal(a, b) == a.NameType = b.NameType /\ a.NameString = b.NameString

\* HasPrefix comparing the whole string
HasPrefix_m(s, prefix) == s = prefix

\* strings.HasPrefix
HasPrefix(s, prefix) ==
    Len(s) >= Len(prefix) /\ SubSeq(s, 1, Len(prefix)) = prefix

\* "X-CACHECONF"
XCACHECONF == <<88, 45, 67, 65, 67, 72, 69, 67, 79, 78, 70>>

RECURSIVE contains_loop(_, _, _)
contains_loop(creds, i, pn) ==
    IF i > Len(creds) THEN FALSE
    ELSE IF Equal(creds[i].Server.PrincipalName, pn) THEN TRUE
    ELSE contains_loop(creds, i + 1, pn)

Contains(cache, pn) ==
    [ret |-> contains_loop(cache.Credentials, 1, pn), recv |-> cache.Credentials]

RECURSIVE getentry_loop(_, _, _)
getentry_loop(creds, i, pn) ==
    IF i > Len(creds) THEN [cred |-> EmptyCredential, found |-> FALSE]
    ELSE IF Equal(creds[i].Server.PrincipalName, pn)
         THEN [cred |-> creds[i], found |-> TRUE]
         ELSE getentry_loop(creds, i + 1, pn)

\* GetEntry whose loop does not stop at the first match
RECURSIVE getentry_last(_, _, _, _)
getentry_last(creds, i, pn, r) ==
    IF i > Len(creds) THEN r
    ELSE IF Equal(creds[i].Server.PrincipalName, pn)
         THEN getentry_last(creds, i + 1, pn, [cred |-> creds[i], found |-> TRUE])
         ELSE getentry_last(creds, i + 1, pn, r)

GetEntry_m(cache, pn) ==
    LET r == getentry_last(cache.Credentials, 1, pn,
                           [cred |-> EmptyCredential, found |-> FALSE])
    IN [cred |-> r.cred, found |-> r.found, recv |-> cache.Credentials]

GetEntry(cache, pn) ==
    LET r == getentry_loop(cache.Credentials, 1, pn) IN
    [cred |-> r.cred, found |-> r.found, recv |-> cache.Credentials]

RECURSIVE getentries_loop(_, _, _)
getentries_loop(creds, i, out) ==
    IF i > Len(creds) THEN out
    ELSE IF HasPrefix(creds[i].Server.Realm, XCACHECONF)
         THEN getentries_loop(creds, i + 1, out)
         ELSE getentries_loop(creds, i + 1, Append(out, creds[i]))

GetEntries(cache) ==
    [ret |-> getentries_loop(cache.Credentials, 1, <<>>), recv |-> cache.Credentials]

----------------------------------------------------------------------------
(* Input buffers: caches written in the format the decoder reads, whole,   *)
(* cut short, or with one byte changed.                                    *)

MaxHdrFields == 2
MaxCreds == 2
MaxCutCreds == 1
MaxMutPos == 11

EncInt16(i, le) ==
    LET u == (i + 65536) % 65536 IN
    IF le THEN <<u % 256, u \div 256>> ELSE <<u \div 256, u % 256>>

EncInt32(i, le) ==
    LET b0 == i % 256
        b1 == (i \div 256) % 256
        b2 == (i \div 65536) % 256
        b3 == (i \div 16777216) % 256
    IN IF le THEN <<b0, b1, b2, b3>> ELSE <<b3, b2, b1, b0>>

EncData(s, le) == EncInt32(Len(s), le) \o s

RECURSIVE Flatten(_)
Flatten(ss) == IF ss = <<>> THEN <<>> ELSE Head(ss) \o Flatten(Tail(ss))

\* a principal as the format of the given version holds it: no name type
\* in version 1, whose count includes the realm
EncPrincipal(version, le, pr) ==
    LET names == pr.PrincipalName.NameString IN
    (IF version = 1 THEN <<>> ELSE EncInt32(pr.PrincipalName.NameType, le))
    \o EncInt32(Len(names) + (IF version = 1 THEN 1 ELSE 0), le)
    \o EncData(pr.Realm, le)
    \o Flatten([i \in 1..Len(names) |-> EncData(names[i], le)])

EncCredential(version, le, cr) ==
    EncPrincipal(version, le, cr.Client)
    \o EncPrincipal(version, le, cr.Server)
    \o EncInt16(cr.Key.KeyType, le)
    \o (IF version = 3 THEN EncInt16(cr.Key.KeyType, le) ELSE <<>>)
    \o EncData(cr.Key.KeyValue, le)
    \o EncInt32(cr.AuthTime, le) \o EncInt32(cr.StartTime, le)
    \o EncInt32(cr.EndTime, le) \o EncInt32(cr.RenewTill, le)
    \o <<IF cr.IsSKey THEN 1 ELSE 0>>
    \o cr.TicketFlags
    \o EncInt32(Len(cr.Addresses), le)
    \o Flatten([i \in 1..Len(cr.Addresses) |->
                  EncInt16(cr.Addresses[i].AddrType, le)
                  \o EncData(cr.Addresses[i].Address, le)])
    \o EncInt32(Len(cr.AuthData), le)
    \o Flatten([i \in 1..Len(cr.AuthData) |->
                  EncInt16(cr.AuthData[i].ADType, le)
                  \o EncData(cr.AuthData[i].ADData, le)])
    \o EncData(cr.Ticket, le)
    \o EncData(cr.SecondTicket, le)

\* a header field as written: tag, length, value
EncField(f) == EncInt16(f.tag, FALSE) \o EncInt16(f.length, FALSE) \o f.value

\* a version 4 header: the declared length is the size of the fields plus slack
EncHeader(fs, slack) ==
    LET body == Flatten([i \in 1..Len(fs) |-> EncField(fs[i])]) IN
    EncInt16(Len(body) + slack, FALSE) \o body

\* the i-th KDC offset field
KdcField(i) == [tag |-> 1, length |-> 8, value |-> <<0, 0, 0, i, 0, 0, 0, 0>>]

\* fields the decoder must refuse
BadFields ==
    {[tag |-> 1, length |-> 7, value |-> <<0, 0, 0, 9, 0, 0, 0>>],
     [tag |-> 1, length |-> 9, value |-> <<0, 0, 0, 9, 0, 0, 0, 0, 0>>],
     [tag |-> 2, length |-> 8, value |-> <<0, 0, 0, 9, 0, 0, 0, 0>>],
     [tag |-> 0, length |-> 0, value |-> <<>>]}

\* "TEST", "host", "EXAMPLE.COM", "user", "R", "a", "b", "X-CACHECONF:"
StrTEST == <<84, 69, 83, 84>>
Strhost == <<104, 111, 115, 116>>
StrEXAMPLECOM == <<69, 88, 65, 77, 80, 76, 69, 46, 67, 79, 77>>
Struser == <<117, 115, 101, 114>>
StrR == <<82>>
Stra == <<97>>
Strb == <<98>>
StrConf == XCACHECONF \o <<58>>

Princ(realm, type, names) ==
    [Realm |-> realm, PrincipalName |-> [NameType |-> type, NameString |-> names]]

PrincTest == Princ(StrTEST, 1, <<Strhost>>)
PrincUser == Princ(StrEXAMPLECOM, 1, <<Struser>>)
SrvA == Princ(StrR, 1, <<Stra>>)
SrvB == Princ(StrR, 2, <<Strb, Stra>>)
SrvConf == Princ(StrConf, 1, <<Stra>>)

CredFor(client, server) ==
    [Client |-> client, Server |-> server,
     Key |-> [KeyType |-> 17, KeyValue |-> <<1, 2>>],
     AuthTime |-> 1, StartTime |-> 2, EndTime |-> 3, RenewTill |-> -1,
     IsSKey |-> (server = SrvB), TicketFlags |-> <<64, 0, 0, 0>>,
     Addresses |-> IF server = SrvB
                   THEN <<[AddrType |-> 2, Address |-> <<127, 0, 0, 1>>]>> ELSE <<>>,
     AuthData |-> IF server = SrvB
                  THEN <<[ADType |-> 1, ADData |-> <<7>>]>> ELSE <<>>,
     Ticket |-> <<9>>, SecondTicket |-> <<>>]

SeqsUpTo(S, n) == UNION {[1..k -> S] : k \in 0..n}

EncCCache(version, le, hdr, slack, princ, creds) ==
    <<5, version>>
    \o (IF version = 4 THEN EncHeader(hdr, slack) ELSE <<>>)
    \o EncPrincipal(version, le, princ)
    \o Flatten([i \in 1..Len(creds) |-> EncCredential(version, le, creds[i])])

\* the byte order a writer on the host uses for the version
WriterLE(version, little) == version \in {1, 2} /\ little

HdrChoices(version) ==
    IF version = 4 THEN {[i \in 1..k |-> KdcField(i)] : k \in 0..MaxHdrFields}
    ELSE {<<>>}

\* the functions a caller decodes a cache with
Calls == {"ParseCCache", "LoadCCache"}

\* version, host byte order and header of a cache
Shapes ==
    {s \in [v : 1..4, l : BOOLEAN, h : HdrChoices(4)] : s.h \in HdrChoices(s.v)}

\* whole caches
WholeInputs ==
    {LET w == EncCCache(s.v, WriterLE(s.v, s.l), s.h, 0, pr, cs) IN
     [b |-> w, spare |-> <<>>, whole |-> w, little |-> s.l, call |-> f] :
       s \in Shapes, pr \in {PrincTest, PrincUser}, f \in Calls,
       cs \in SeqsUpTo({CredFor(PrincTest, s) : s \in {SrvA, SrvB, SrvConf}}, MaxCreds)}

\* caches cut at every offset before their end, the slice keeping the
\* capacity of the whole buffer (b[:n]) or not (a copy of the first n bytes)
CutSources ==
    {[full |-> EncCCache(s.v, WriterLE(s.v, s.l), s.h, 0, PrincTest, cs),
      little |-> s.l] :
       s \in Shapes,
       cs \in SeqsUpTo({CredFor(PrincTest, SrvA)}, MaxCutCreds)}

CutInputs ==
    UNION {{[b |-> SubSeq(s.full, 1, n),
             spare |-> IF keep THEN SubSeq(s.full, n + 1, Len(s.full)) ELSE <<>>,
             whole |-> s.full, little |-> s.little, call |-> "ParseCCache"] :
              n \in 0..(Len(s.full) - 1), keep \in BOOLEAN} : s \in CutSources}

\* caches with one of the leading bytes changed
MutVals == {0, 1, 4, 5, 7, 9, 133, 255}

MutInputs ==
    {LET w == [s.full EXCEPT ![i + 1] = x] IN
     [b |-> w, spare |-> <<>>, whole |-> w, little |-> s.little,
      call |-> "ParseCCache"] :
       s \in CutSources, i \in 0..MaxMutPos, x \in MutVals}

\* buffers of one and two bytes
TinyInputs ==
    {[b |-> t, spare |-> <<>>, whole |-> t, little |-> TRUE, call |-> f] :
       t \in SeqsUpTo(MutVals, 2), f \in Calls}

\* version 4 caches whose header holds fields the decoder must refuse, or
\* declares more than its fields take
HdrInputs ==
    {LET w == EncCCache(4, FALSE, h, k, PrincTest, <<>>) IN
     [b |-> w, spare |-> <<>>, whole |-> w, little |-> l, call |-> "ParseCCache"] :
       h \in SeqsUpTo({KdcField(1)} \cup BadFields, MaxHdrFields),
       k \in {0, 1, 4, 12}, l \in {TRUE}}

----------------------------------------------------------------------------
(* The program *)

VARIABLES
    b,        \* the bytes of the slice given to ParseCCache
    spare,    \* the bytes of its backing array past len(b)
    little,   \* the host is little-endian
    whole,    \* the buffer b holds the first bytes of (b itself when not cut)
    call,     \* "ParseCCache" or "LoadCCache": the function called
    pc,       \* where the call is
    p,        \* the cursor of ParseCCache
    pPrev,    \* the cursor before the last step of ParseCCache
    c,        \* the CCache being built, then the one returned
    err,      \* the error being returned
    iters,    \* iterations of the credential loop completed
    hdrRead,  \* header fields parse_header took from the buffer
    q         \* the last query made of the cache returned, and its result

vars == <<b, spare, little, whole, call, pc, p, pPrev, c, err, iters, hdrRead, q>>

input == <<b, spare, little, whole, call>>

Buf == [arr |-> b \o spare, len |-> Len(b)]

Cur == [pc |-> pc, p |-> p, c |-> c, err |-> err, iters |-> iters, read |-> hdrRead]

Set(st) ==
    /\ pc' = st.pc
    /\ p' = st.p
    /\ c' = st.c
    /\ err' = st.err
    /\ iters' = st.iters
    /\ hdrRead' = st.read
    /\ pPrev' = p

cpath == "/tmp/krb5cc_1000"

\* a query and what it returned: found the boolean, cred the credential and
\* list the credentials, each when the query returns one
NoQuery ==
    [op |-> "none", target |-> EmptyPrincipalName, found |-> FALSE,
     cred |-> EmptyCredential, list |-> <<>>]

\* principal names asked for
Targets ==
    {[NameType |-> 0, NameString |-> <<Stra>>],
     [NameType |-> 1, NameString |-> <<Stra>>],
     [NameType |-> 2, NameString |-> <<Strb, Stra>>],
     [NameType |-> 1, NameString |-> <<Strb, Stra>>]}

\* the state as the call of in.call on the buffer in.b begins
Begin(in) ==
    /\ b = in.b
    /\ spare = in.spare
    /\ little = in.little
    /\ whole = in.whole
    /\ call = in.call
    /\ pc = IF in.call = "LoadCCache" THEN "load" ELSE "magic"
    /\ p = 0
    /\ pPrev = 0
    /\ c = EmptyCCache
    /\ err = "nil"
    /\ iters = 0
    /\ hdrRead = <<>>
    /\ q = NoQuery

Init ==
    \/ \E in \in WholeInputs : Begin(in)
    \/ \E in \in CutInputs : Begin(in)
    \/ \E in \in MutInputs : Begin(in)
    \/ \E in \in TinyInputs : Begin(in)
    \/ \E in \in HdrInputs : Begin(in)

\* LoadCCache, lines 72-76: ioutil.ReadFile fails, or gives the bytes
ReadFileFails ==
    /\ pc = "load"
    /\ pc' = "loaded"
    /\ err' = "ReadFile"
    /\ c' = EmptyCCache
    /\ UNCHANGED <<input, p, pPrev, iters, hdrRead, q>>

ReadFile ==
    /\ pc = "load"
    /\ pc' = "magic"
    /\ UNCHANGED <<input, p, pPrev, c, err, iters, hdrRead, q>>

\* LoadCCache, lines 77-78
LoadReturn ==
    /\ pc = "returned"
    /\ call = "LoadCCache"
    /\ pc' = "loaded"
    /\ c' = [c EXCEPT !.Path = cpath]
    /\ UNCHANGED <<input, p, pPrev, err, iters, hdrRead, q>>

CheckMagic ==
    /\ pc = "magic"
    /\ Set(step_magic(Buf, Cur))
    /\ UNCHANGED <<input, q>>

CheckVersion ==
    /\ pc = "version"
    /\ Set(step_version(Buf, Cur))
    /\ UNCHANGED <<input, q>>

ParseHeader ==
    /\ pc = "header"
    /\ Set(step_header(Buf, Cur, little))
    /\ UNCHANGED <<input, q>>

ParseDefaultPrincipal ==
    /\ pc = "principal"
    /\ Set(step_principal(Buf, Cur, little))
    /\ UNCHANGED <<input, q>>

ParseCredential ==
    /\ pc = "credentials"
    /\ p < Len(b)
    /\ Set(step_credentials(Buf, Cur, little))
    /\ UNCHANGED <<input, q>>

LoopExit ==
    /\ pc = "credentials"
    /\ ~(p < Len(b))
    /\ Set(step_credentials(Buf, Cur, little))
    /\ UNCHANGED <<input, q>>

\* the caller holds a cache: the call returned without an error
Done ==
    /\ err = "nil"
    /\ \/ call = "ParseCCache" /\ pc = "returned"
       \/ call = "LoadCCache" /\ pc = "loaded"

CallGetEntries ==
    /\ Done
    /\ LET r == GetEntries(c) IN
         /\ q' = [NoQuery EXCEPT !.op = "GetEntries", !.list = r.ret]
         /\ c' = [c EXCEPT !.Credentials = r.recv]
    /\ UNCHANGED <<input, pc, p, pPrev, err, iters, hdrRead>>

CallGetEntry ==
    /\ Done
    /\ \E t \in Targets :
         LET r == GetEntry(c, t) IN
         /\ q' = [NoQuery EXCEPT !.op = "GetEntry", !.target = t,
                                 !.cred = r.cred, !.found = r.found]
         /\ c' = [c EXCEPT !.Credentials = r.recv]
    /\ UNCHANGED <<input, pc, p, pPrev, err, iters, hdrRead>>

CallContains ==
    /\ Done
    /\ \E t \in Targets :
         LET r == Contains(c, t) IN
         /\ q' = [NoQuery EXCEPT !.op = "Contains", !.target = t, !.found = r.ret]
         /\ c' = [c EXCEPT !.Credentials = r.recv]
    /\ UNCHANGED <<input, pc, p, pPrev, err, iters, hdrRead>>

Next ==
    \/ ReadFileFails
    \/ ReadFile
    \/ LoadReturn
    \/ CheckMagic
    \/ CheckVersion
    \/ ParseHeader
    \/ ParseDefaultPrincipal
    \/ ParseCredential
    \/ LoopExit
    \/ CallGetEntries
    \/ CallGetEntry
    \/ CallContains

Spec == Init /\ [][Next]_vars

----------------------------------------------------------------------------
(* Properties *)

Mem == b \o spare

\* ParseCCache has returned to its caller
HasReturned == pc = "returned" \/ (pc = "loaded" /\ err # "ReadFile")

\* ParseCCache has been entered and has passed the step named
Past(places) == pc \notin ({"load"} \cup places) /\ err # "ReadFile"

\* The steps taken one at a time end in the state the whole call ends in.
StepsAgree ==
    pc \in {"returned", "panicked"} => Cur = ParseCCache(Buf, little)

\* the whole buffer decodes, and b is its first bytes, cut before its end
IsCut ==
    /\ Len(b) < Len(whole)
    /\ b = SubSeq(whole, 1, Len(b))
    /\ LET r == ParseCCache([arr |-> whole, len |-> Len(whole)], little)
       IN r.pc = "returned" /\ r.err = "nil"

\* C1: a buffer that decodes, cut at any offset before its end, makes
\* ParseCCache return the error TruncatedInput: the call neither returns a
\* cache without an error nor aborts on a read out of range.
C1_CutFailsTruncated ==
    (IsCut /\ pc \in {"returned", "panicked"})
        => (pc = "returned" /\ err = "TruncatedInput")

\* C2: whenever ParseCCache or LoadCCache returns an error, the cache
\* returned with it is the empty one: no version, header, default principal,
\* credential or path is set in it.
C2_ErrorReturnsEmptyCache ==
    (pc \in {"returned", "loaded"} /\ err # "nil") => c = EmptyCCache

\* C3: a buffer whose first byte is not 5, of any length from 1 on, makes
\* ParseCCache return the error MalformedMagic with the cursor still on the
\* first byte and nothing decoded.
C3_MalformedMagic ==
    (Len(b) >= 1 /\ b[1] # 5 /\ Past({"magic"}))
        => /\ HasReturned
           /\ err = "MalformedMagic"
           /\ p = 0
           /\ [c EXCEPT !.Path = ""] = EmptyCCache
           /\ iters = 0
           /\ hdrRead = <<>>

C3_Witness ==
    /\ Len(b) = 1
    /\ b[1] = 133
    /\ pc = "returned"
    /\ err = "MalformedMagic"

\* C4: with the first byte 5, a version byte outside 1..4 makes ParseCCache
\* return the error UnsupportedVersion with no header, principal or
\* credential decoded; a version byte in 1..4 passes the check.
C4_UnsupportedVersion ==
    (Len(b) >= 2 /\ b[1] = 5 /\ Past({"magic", "version"}))
        => IF b[2] \notin 1..4
           THEN /\ HasReturned
                /\ err = "UnsupportedVersion"
                /\ p = 1
                /\ c.Header = EmptyHeader
                /\ c.DefaultPrincipal = EmptyPrincipal
                /\ c.Credentials = <<>>
                /\ hdrRead = <<>>
                /\ iters = 0
           ELSE /\ err # "UnsupportedVersion"
                /\ c.Version = b[2]
                /\ (pc = IF b[2] = 4 THEN "header" ELSE "principal") => p = 2

C4_Witness ==
    /\ Len(b) > 2
    /\ b[1] = 5
    /\ b[2] = 0
    /\ pc = "returned"
    /\ err = "UnsupportedVersion"

\* a credential is a configuration entry
IsConf(cred) ==
    /\ Len(cred.Server.Realm) >= 11
    /\ \A i \in 1..11 : cred.Server.Realm[i] = XCACHECONF[i]

\* the indices of creds that are not configuration entries
Kept(creds) == {i \in 1..Len(creds) : ~IsConf(creds[i])}

\* the j-th smallest element of the set of numbers S
Nth(S, j) == CHOOSE i \in S : Cardinality({k \in S : k <= i}) = j

\* C5: GetEntries returns the credentials whose server realm does not start
\* with "X-CACHECONF", each of them, in the order of Credentials, and leaves
\* Credentials as it was; a configuration entry it drops is still found by
\* Contains and by GetEntry.
C5_GetEntries ==
    [][CallGetEntries =>
         LET creds == c.Credentials
             ret == q'.list
         IN /\ Len(ret) = Cardinality(Kept(creds))
            /\ \A j \in 1..Len(ret) : ret[j] = creds[Nth(Kept(creds), j)]
            /\ c' = c
            /\ \A i \in 1..Len(creds) :
                 IsConf(creds[i]) =>
                   /\ Contains(c', creds[i].Server.PrincipalName).ret
                   /\ GetEntry(c', creds[i].Server.PrincipalName).found
      ]_vars

C5_Witness ==
    /\ q.op = "GetEntries"
    /\ Len(c.Credentials) = 2
    /\ IsConf(c.Credentials[1])
    /\ q.list = <<c.Credentials[2]>>

\* the indices of the credentials whose server principal name equals pn
Matches(creds, pn) ==
    {i \in 1..Len(creds) : Equal(creds[i].Server.PrincipalName, pn)}

\* C6: GetEntry returns found with the first credential, in the order of
\* Credentials, whose server principal name equals the one asked for, and
\* not found with an empty credential when there is none; Contains is true
\* exactly when GetEntry finds; neither changes Credentials.
C6_GetEntryContains ==
    [][/\ CallGetEntry =>
            LET creds == c.Credentials
                M == Matches(creds, q'.target)
            IN /\ q'.found = (M # {})
               /\ M # {} => q'.cred = creds[Nth(M, 1)]
               /\ M = {} => q'.cred = EmptyCredential
               /\ q'.found = Contains(c, q'.target).ret
               /\ c' = c
       /\ CallContains =>
            /\ q'.found = (Matches(c.Credentials, q'.target) # {})
            /\ q'.found = GetEntry(c, q'.target).found
            /\ c' = c
      ]_vars

C6_Witness ==
    /\ q.op = "GetEntry"
    /\ q.found
    /\ Cardinality(Matches(c.Credentials, q.target)) = 2
    /\ q.cred = c.Credentials[1]
    /\ c.Credentials[2] # c.Credentials[1]

\* C7: a header field read by parse_header whose tag is not 1 or whose
\* length is not 8 makes the decoding return the error InvalidHeaderField,
\* and the field is not recorded; every field of a header decoded has tag 1,
\* length 8 and a value of 8 bytes.
C7_InvalidHeaderField ==
    /\ \A i \in 1..Len(hdrRead) :
         (hdrRead[i].tag # 1 \/ hdrRead[i].length # 8)
            => /\ HasReturned
               /\ err = "InvalidHeaderField"
               /\ \A j \in 1..Len(c.Header.fields) : c.Header.fields[j] # hdrRead[i]
               /\ Len(c.Header.fields) < Len(hdrRead)
    /\ \A j \in 1..Len(c.Header.fields) :
         /\ c.Header.fields[j].tag = 1
         /\ c.Header.fields[j].length = 8
         /\ Len(c.Header.fields[j].value) = 8
    /\ (Past({"magic", "version", "header"}) /\ c.Version = 4
          /\ pc # "panicked" /\ err = "nil")
         => c.Header.fields = hdrRead

C7_Witness ==
    /\ pc = "returned"
    /\ err = "InvalidHeaderField"
    /\ Len(hdrRead) = 2
    /\ hdrRead[2].tag = 1
    /\ hdrRead[2].length = 7

\* the state is the one parse_principal leaves after the default principal
AfterDefaultPrincipal == pc = "credentials" /\ iters = 0

\* the count field of the default principal, as the file holds it
RawCount ==
    LET at == pPrev + (IF c.Version = 1 THEN 0 ELSE 4) IN
    Int32(SubSeq(Mem, at + 1, at + 4), Endian(c.Version, little))

\* C8: in version 1 parse_principal reads no name type and one name
\* component fewer than the count field says; in versions 2 to 4 it reads a
\* 32-bit name type first and as many components as the count field says.
\* The bytes it consumes are the principal it returns, written in the layout
\* of the version: realm and components are in the order of the file.  (A
\* count that leaves a negative number of components reads none.)
C8_PrincipalLayout ==
    AfterDefaultPrincipal =>
      LET v == c.Version
          le == Endian(v, little)
          dp == c.DefaultPrincipal
          n == IF v = 1 THEN RawCount - 1 ELSE RawCount
      IN /\ Len(dp.PrincipalName.NameString) = IF n > 0 THEN n ELSE 0
         /\ dp.PrincipalName.NameType =
              IF v = 1 THEN 0 ELSE Int32(SubSeq(Mem, pPrev + 1, pPrev + 4), le)
         /\ n >= 0 => SubSeq(Mem, pPrev + 1, p) = EncPrincipal(v, le, dp)
         /\ n < 0 => p = pPrev + (IF v = 1 THEN 0 ELSE 4) + 8 + Len(dp.Realm)

C8_Witness ==
    /\ AfterDefaultPrincipal
    /\ c.Version = 1
    /\ RawCount = 2
    /\ c.DefaultPrincipal = Princ(StrTEST, 0, <<Strhost>>)

\* C9: the cursor of ParseCCache never decreases, every iteration of the
\* credential loop increases it, and the loop ends with an error or with
\* the cursor equal to the length of the buffer, the credentials returned as
\* many as the iterations completed.
C9_CursorAndLoop ==
    [][/\ p' >= p
       /\ (ParseCredential /\ pc' # "panicked") => p' > p
       /\ (pc # "returned" /\ pc' = "returned")
            => /\ err' # "nil" \/ p' = Len(b)
               /\ Len(c'.Credentials) = iters'
      ]_vars

\* the header of b declares 12*k bytes and k fields of tag 1, length 8 follow
DeclaredFields(k) ==
    /\ Len(b) >= 2
    /\ b[1] = 5
    /\ b[2] = 4
    /\ Len(Mem) >= 4 + 12 * k
    /\ Uint16(SubSeq(Mem, 3, 4), FALSE) = 12 * k
    /\ \A i \in 0..(k - 1) :
         SubSeq(Mem, 4 + 12 * i + 1, 4 + 12 * i + 4) = <<0, 1, 0, 8>>

\* the i-th of the fields that follow the declared length
FieldAt(i) ==
    [tag |-> 1, length |-> 8,
     value |-> SubSeq(Mem, 4 + 12 * (i - 1) + 5, 4 + 12 * (i - 1) + 12)]

\* C10: a version 4 header that declares 12*k bytes and is followed by k
\* valid fields makes parse_header record those k fields, in the order of
\* the file, and leave the cursor at 4 + 12*k, where the default principal
\* begins: no field is read from the bytes of the principal.
C10_HeaderBoundary ==
    \A k \in 0..(MaxHdrFields + 1) :
      (DeclaredFields(k) /\ Past({"magic", "version", "header"}))
         => /\ err # "InvalidHeaderField"
            /\ hdrRead = [i \in 1..k |-> FieldAt(i)]
            /\ c.Header = [length |-> 12 * k, fields |-> [i \in 1..k |-> FieldAt(i)]]
            /\ pc = "principal" => p = 4 + 12 * k
            /\ pc # "principal" => pPrev >= 4 + 12 * k
            /\ AfterDefaultPrincipal => pPrev = 4 + 12 * k

C10_Witness ==
    /\ DeclaredFields(2)
    /\ pc = "principal"
    /\ p = 28
    /\ Len(c.Header.fields) = 2

====
